---- MODULE Spec2Model ----
(***************************************************************************)
(* Admission webhook of cnych/admission-registry: WebhookServer.Handler    *)
(* with its two policies, validate (image whitelist) and mutate            *)
(* (annotation patch), modelled from src/pkg/webhook.go.                   *)
(*                                                                         *)
(* Strings the code inspects character by character (annotation values,    *)
(* image references, whitelist prefixes) are sequences of one-character    *)
(* strings.  A Go pointer or possibly-nil map is a sequence of length 0    *)
(* (nil) or 1 (the value pointed to).                                      *)
(***************************************************************************)
EXTENDS Integers, Sequences, FiniteSets, TLC

VARIABLES WhiteListRegistries, request, response, pc, calls

vars == <<WhiteListRegistries, request, response, pc, calls>>

(***************************************************************************)
(* Bounds of the model.                                                    *)
(***************************************************************************)
MaxContainers == 2
MaxCalls == 2

(***************************************************************************)
(* Program constants.                                                      *)
(***************************************************************************)
AnnotationMutateKey == "io.ydzs.admission-registry/mutate"
AnnotationStatusKey == "io.ydzs.admission-registry/status"
StatusOK == 200
StatusBadRequest == 400
StatusForbidden == 403
StatusInternalServerError == 500

(***************************************************************************)
(* strings.ToLower, character by character.                                *)
(***************************************************************************)
LowerOf ==
  [A |-> "a", B |-> "b", C |-> "c", D |-> "d", E |-> "e", F |-> "f",
   G |-> "g", H |-> "h", I |-> "i", J |-> "j", K |-> "k", L |-> "l",
   M |-> "m", N |-> "n", O |-> "o", P |-> "p", Q |-> "q", R |-> "r",
   S |-> "s", T |-> "t", U |-> "u", V |-> "v", W |-> "w", X |-> "x",
   Y |-> "y", Z |-> "z"]

ToLower(s) ==
  [i \in 1..Len(s) |-> IF s[i] \in DOMAIN LowerOf THEN LowerOf[s[i]] ELSE s[i]]

(***************************************************************************)
(* strings.HasPrefix.                                                      *)
(***************************************************************************)
HasPrefix(s, prefix) ==
  /\ Len(prefix) <= Len(s)
  /\ SubSeq(s, 1, Len(prefix)) = prefix

(***************************************************************************)
(* A Go map read: the zero value "" for a missing key.                     *)
(***************************************************************************)
MapGet(m, key) == IF key \in DOMAIN m THEN m[key] ELSE <<>>

(***************************************************************************)
(* fmt's %v of a []string: the elements separated by spaces, in brackets.  *)
(***************************************************************************)
RECURSIVE JoinSpace(_)
JoinSpace(list) ==
  IF Len(list) = 0 THEN <<>>
  ELSE IF Len(list) = 1 THEN list[1]
  ELSE list[1] \o <<" ">> \o JoinSpace(Tail(list))

FormatList(list) == <<"[">> \o JoinSpace(list) \o <<"]">>

(***************************************************************************)
(* json.Unmarshal of the raw target object (req.Object.Raw).  Raw is the   *)
(* byte string: <<>> when the request carries no object, else one JSON     *)
(* text that is malformed or an object document.  Fields the destination   *)
(* type does not have are ignored, as encoding/json does.                  *)
(***************************************************************************)
UnmarshalFails(raw) == Len(raw) = 0 \/ raw[1].syntax = "malformed"

PodContainers(raw) == raw[1].containers

ObjectMetaAnnotations(raw) == raw[1].annotations

(***************************************************************************)
(* admissionv1.AdmissionResponse and metav1.Status values.                 *)
(***************************************************************************)
NoUID == ""

AdmissionResponse(allowed, result, patch, patchType) ==
  [UID |-> NoUID, Allowed |-> allowed, Result |-> result,
   Patch |-> patch, PatchType |-> patchType]

Status(code, message) == <<[Code |-> code, Message |-> message]>>

(* What a policy hands back: the response, or a panic, and the calls made. *)
Returned(resp, ran) == [panic |-> FALSE, resp |-> <<resp>>, ran |-> ran]

Panicked(ran) == [panic |-> TRUE, resp |-> <<>>, ran |-> ran]

(***************************************************************************)
(* WebhookServer.validate: the image whitelist policy.                     *)
(***************************************************************************)
whitelistedMut(image, registries) ==
  \A i \in 1..Len(registries) : HasPrefix(image, registries[i])

whitelisted(image, registries) ==
  \E i \in 1..Len(registries) : HasPrefix(image, registries[i])

untrustedMessage(image, registries) ==
  image \o <<" image comes from an untrusted registry! Only images from ">>
        \o FormatList(registries) \o <<" are allowed.">>

validateContainersNoBreak(containers, registries, i) ==
  LET bad == { j \in i..Len(containers) : ~whitelisted(containers[j], registries) } IN
  IF bad = {}
  THEN AdmissionResponse(TRUE, Status(StatusOK, <<>>), <<>>, <<>>)
  ELSE LET last == CHOOSE j \in bad : \A k \in bad : k <= j IN
       AdmissionResponse(FALSE,
         Status(StatusForbidden, untrustedMessage(containers[last], registries)),
         <<>>, <<>>)

RECURSIVE validateContainers(_, _, _)
validateContainers(containers, registries, i) ==
  IF i > Len(containers)
  THEN AdmissionResponse(TRUE, Status(StatusOK, <<>>), <<>>, <<>>)
  ELSE IF ~whitelisted(containers[i], registries)
  THEN AdmissionResponse(FALSE,
         Status(StatusForbidden, untrustedMessage(containers[i], registries)),
         <<>>, <<>>)
  ELSE validateContainers(containers, registries, i + 1)

validateFailOpen(ar, registries) ==
  IF Len(ar.Request) = 0
  THEN Panicked({"validate"})
  ELSE LET req == ar.Request[1] IN
       IF UnmarshalFails(req.Object)
       THEN Returned(AdmissionResponse(TRUE, Status(StatusOK, <<>>), <<>>, <<>>),
                     {"validate"})
       ELSE Returned(validateContainers(PodContainers(req.Object), registries, 1),
                     {"validate", "whitelist"})

validate(ar, registries) ==
  IF Len(ar.Request) = 0
  THEN Panicked({"validate"})
  ELSE LET req == ar.Request[1] IN
       IF UnmarshalFails(req.Object)
       THEN Returned(AdmissionResponse(FALSE,
                       Status(StatusBadRequest, <<"json: cannot unmarshal object">>),
                       <<>>, <<>>),
                     {"validate"})
       ELSE Returned(validateContainers(PodContainers(req.Object), registries, 1),
                     {"validate", "whitelist"})

(***************************************************************************)
(* mutationRequired: the directive switch, then the status override.       *)
(***************************************************************************)
OptOutValues == { <<"n">>, <<"n", "o">>, <<"f", "a", "l", "s", "e">>, <<"o", "f", "f">> }

Mutated == <<"m", "u", "t", "a", "t", "e", "d">>

mutationRequiredCaseSensitive(metaAnnotations) ==
  LET annotations == IF Len(metaAnnotations) = 0 THEN <<>> ELSE metaAnnotations[1]
      required == MapGet(annotations, AnnotationMutateKey) \notin OptOutValues
  IN  IF MapGet(annotations, AnnotationStatusKey) = Mutated THEN FALSE ELSE required

mutationRequiredWithoutN(metaAnnotations) ==
  LET annotations == IF Len(metaAnnotations) = 0 THEN <<>> ELSE metaAnnotations[1]
      required == ToLower(MapGet(annotations, AnnotationMutateKey))
                    \notin (OptOutValues \ { <<"n">> })
      status == MapGet(annotations, AnnotationStatusKey)
  IN  IF ToLower(status) = Mutated THEN FALSE ELSE required

mutationRequired(metaAnnotations) ==
  LET annotations == IF Len(metaAnnotations) = 0 THEN <<>> ELSE metaAnnotations[1]
      required == ToLower(MapGet(annotations, AnnotationMutateKey)) \notin OptOutValues
      status == MapGet(annotations, AnnotationStatusKey)
  IN  IF ToLower(status) = Mutated THEN FALSE ELSE required

(***************************************************************************)
(* mutateAnnotations: one patch operation per key of added.  target is the *)
(* possibly-nil annotation map of the object; the loop reassigns it to an  *)
(* empty map in the add branch.                                            *)
(***************************************************************************)
(* A patch path is a JSON Pointer string; it is kept as the list of pieces  *)
(* between its "/" characters, which is how the pointer is read.  The key  *)
(* is appended to the path as it is (no ~1 escaping), so the "/" inside an *)
(* annotation key starts a new piece.                                      *)
AnnotationsPath == <<"metadata", "annotations">>

SlashPieces ==
  ("io.ydzs.admission-registry/mutate" :> <<"io.ydzs.admission-registry", "mutate">>)
    @@ ("io.ydzs.admission-registry/status" :> <<"io.ydzs.admission-registry", "status">>)
    @@ ("app" :> <<"app">>)

keyPath(key) == AnnotationsPath \o SlashPieces[key]

patchOperation(op, path, value) == [Op |-> op, Path |-> path, Value |-> value]

JsonObject(m) == [type |-> "object", fields |-> m]

JsonString(str) == [type |-> "string", str |-> str]

RECURSIVE mutateAnnotationsLoop(_, _, _, _)
mutateAnnotationsLoop(target, added, keys, patch) ==
  IF keys = {} THEN patch
  ELSE LET key == CHOOSE k \in keys : TRUE
           value == added[key]
       IN  IF Len(target) = 0 \/ MapGet(target[1], key) = <<>>
           THEN mutateAnnotationsLoop(<< <<>> >>, added, keys \ {key},
                  Append(patch, patchOperation("add", AnnotationsPath,
                                               JsonObject(key :> value))))
           ELSE mutateAnnotationsLoop(target, added, keys \ {key},
                  Append(patch, patchOperation("replace", keyPath(key),
                                               JsonString(value))))

mutateAnnotationsAlwaysReplace(target, added) ==
  LET key == CHOOSE k \in DOMAIN added : TRUE
  IN  << patchOperation("replace", keyPath(key), JsonString(added[key])) >>

mutateAnnotations(target, added) ==
  mutateAnnotationsLoop(target, added, DOMAIN added, <<>>)

(***************************************************************************)
(* WebhookServer.mutate: the annotation patch policy.  json.Marshal of a   *)
(* []patchOperation whose values are strings and string maps cannot fail,  *)
(* so the patch-marshal error branch is never taken and Patch holds the    *)
(* operations themselves.                                                  *)
(***************************************************************************)
SupportedKinds == {"Deployment", "Service"}

unsupportedKindMessage(kind) == <<"Can't handle the kind(", kind, ") object">>

PatchTypeJSONPatch == "JSONPatch"

mutateObject(raw) ==
  IF UnmarshalFails(raw)
  THEN Returned(AdmissionResponse(FALSE,
                  Status(StatusBadRequest, <<"json: cannot unmarshal object">>),
                  <<>>, <<>>),
                {"mutate"})
  ELSE LET objectMeta == ObjectMetaAnnotations(raw) IN
       IF ~mutationRequired(objectMeta)
       THEN Returned(AdmissionResponse(TRUE, <<>>, <<>>, <<>>),
                     {"mutate", "mutationRequired"})
       ELSE LET annotations == AnnotationStatusKey :> Mutated
                patch == mutateAnnotations(objectMeta, annotations)
            IN  Returned(AdmissionResponse(TRUE, <<>>, patch, <<PatchTypeJSONPatch>>),
                         {"mutate", "mutationRequired", "mutateAnnotations"})

mutateAnyKind(ar) ==
  IF Len(ar.Request) = 0
  THEN Panicked({"mutate"})
  ELSE mutateObject(ar.Request[1].Object)

mutate(ar) ==
  IF Len(ar.Request) = 0
  THEN Panicked({"mutate"})
  ELSE LET req == ar.Request[1] IN
       IF req.Kind \in SupportedKinds
       THEN mutateObject(req.Object)
       ELSE Returned(AdmissionResponse(FALSE,
                       Status(StatusBadRequest, unsupportedKindMessage(req.Kind)),
                       <<>>, <<>>),
                     {"mutate"})

(***************************************************************************)
(* WebhookServer.Handler.                                                  *)
(*                                                                         *)
(* An http.Request is [Body, ContentType, Path]: Body is nil (<<>>) or a   *)
(* reader [data, err] whose ReadAll yields data and fails when err; data   *)
(* is the byte string, <<>> or one JSON text.                              *)
(***************************************************************************)
ContentTypeJSON == "application/json"

ReadBodyIgnoringError(req) ==
  IF Len(req.Body) = 0 THEN <<>> ELSE req.Body[1].data

ReadBody(req) ==
  IF Len(req.Body) = 0 THEN <<>>
  ELSE IF req.Body[1].err THEN <<>>
  ELSE req.Body[1].data

ContentTypeOkLoose(contentType) ==
  contentType \in {ContentTypeJSON, "application/json; charset=utf-8"}

ContentTypeOk(contentType) == contentType = ContentTypeJSON

(* admissionv1.AdmissionReview{}: the zero value the decode fills in.      *)
AdmissionReview(apiVersion, kind, req) ==
  [APIVersion |-> apiVersion, Kind |-> kind, Request |-> req]

(***************************************************************************)
(* deserializer.Decode(body, nil, &requestedAdmissionReview): the scheme   *)
(* has no type registered, so the JSON text is unmarshalled into the       *)
(* struct as it is.  A text that is not JSON fills nothing in; a text      *)
(* whose fields do not fit the struct fails after the type tags were read. *)
(***************************************************************************)
Decode(body) ==
  LET doc == body[1] IN
  IF doc.syntax = "malformed"
  THEN [err |-> TRUE, review |-> AdmissionReview("", "", <<>>)]
  ELSE IF doc.syntax = "mismatch"
  THEN [err |-> TRUE, review |-> AdmissionReview(doc.apiVersion, doc.kind, <<>>)]
  ELSE [err |-> FALSE, review |-> AdmissionReview(doc.apiVersion, doc.kind, doc.request)]

decodeErrorResponseBadRequest ==
  AdmissionResponse(FALSE, Status(StatusBadRequest, <<"couldn't get version/kind">>),
                    <<>>, <<>>)

decodeErrorResponse ==
  AdmissionResponse(FALSE, Status(StatusInternalServerError, <<"couldn't get version/kind">>),
                    <<>>, <<>>)

(* The path switch: /mutate, /validate, or no decision (a nil response).   *)
routeFallThrough(path, ar, registries) ==
  IF path = "/mutate" THEN mutate(ar) ELSE validate(ar, registries)

route(path, ar, registries) ==
  IF path = "/mutate" THEN mutate(ar)
  ELSE IF path = "/validate" THEN validate(ar, registries)
  ELSE [panic |-> FALSE, resp |-> <<>>, ran |-> {}]

(* The reply envelope: type tags copied, the decision attached when there  *)
(* is one, and the request's UID copied onto it when there is a request.   *)
responseAdmissionReview(ar, admissionResponse) ==
  [APIVersion |-> ar.APIVersion,
   Kind |-> ar.Kind,
   Response |->
     IF Len(admissionResponse) = 0 THEN <<>>
     ELSE IF Len(ar.Request) = 0 THEN admissionResponse
     ELSE << [admissionResponse[1] EXCEPT !.UID = ar.Request[1].UID] >>]

(* What the client receives: http.Error's status and text line, or the     *)
(* envelope written with the implicit status 200, or nothing when the      *)
(* handler panicked (net/http recovers and drops the connection).          *)
(* json.Marshal of the envelope cannot fail for these types; ran is the    *)
(* set of stages the call went through.                                    *)
httpError(text, code, ran) ==
  [written |-> TRUE, status |-> code, text |-> text, review |-> <<>>, ran |-> ran]

httpWrite(review, ran) ==
  [written |-> TRUE, status |-> StatusOK, text |-> "", review |-> <<review>>, ran |-> ran]

httpAborted(ran) ==
  [written |-> FALSE, status |-> 0, text |-> "", review |-> <<>>, ran |-> ran]

Handler(req, registries) ==
  LET body == ReadBody(req) IN
  IF Len(body) = 0
  THEN httpError("empty data body\n", StatusBadRequest, {})
  ELSE IF ~ContentTypeOk(req.ContentType)
  THEN httpError("Content-Type invalid, expect application/json\n", StatusBadRequest, {})
  ELSE LET decoded == Decode(body)
           outcome == IF decoded.err
                      THEN Returned(decodeErrorResponse, {})
                      ELSE route(req.Path, decoded.review, registries)
           ran == {"decode"} \cup outcome.ran
       IN  IF outcome.panic
           THEN httpAborted(ran)
           ELSE httpWrite(responseAdmissionReview(decoded.review, outcome.resp), ran)

(***************************************************************************)
(* The requests the handler is given.                                      *)
(***************************************************************************)
RegA == <<"a", "/">>
RegB == <<"b", "/">>

(* strings.Split(os.Getenv("WHITELIST_REGISTRIES"), ","): never empty; an  *)
(* unset variable gives the one-element list [""].                         *)
Whitelists == { <<RegA>>, <<RegB>>, <<RegA, RegB>>, << <<>> >> }

Images == { <<"a", "/", "x">>, <<"b", "/", "y">>, <<"c", "/", "z">>, <<"a">> }

RECURSIVE SeqsUpTo(_, _)
SeqsUpTo(S, n) ==
  IF n = 0 THEN { <<>> }
  ELSE LET shorter == SeqsUpTo(S, n - 1)
       IN  shorter \cup { Append(q, x) : q \in { t \in shorter : Len(t) = n - 1 }, x \in S }

ContainerLists == SeqsUpTo(Images, MaxContainers)

DirectiveValues ==
  { <<>>, <<"n">>, <<"N", "O">>, <<"F", "a", "l", "s", "e">>, <<"o", "f", "f">>,
    <<"O", "F", "F">>, <<"y", "e", "s">> }

StatusValues ==
  { <<>>, Mutated, <<"M", "U", "T", "A", "T", "E", "D">>,
    <<"p", "e", "n", "d", "i", "n", "g">> }

OtherKey == "app"

Optional(S) == { <<>> } \cup { <<x>> : x \in S }

Entry(key, opt) == IF Len(opt) = 0 THEN <<>> ELSE key :> opt[1]

AnnotationMaps ==
  { Entry(AnnotationMutateKey, d) @@ Entry(AnnotationStatusKey, st) @@ Entry(OtherKey, o) :
      d \in Optional(DirectiveValues), st \in Optional(StatusValues),
      o \in Optional({ <<"w", "e", "b">> }) }

ObjectDoc(annotations, containers) ==
  [syntax |-> "json", annotations |-> annotations, containers |-> containers]

Objects ==
  { ObjectDoc(a, <<>>) : a \in Optional(AnnotationMaps) }
    \cup { ObjectDoc(<<>>, c) : c \in ContainerLists }

RawObjects == { <<>>, << [syntax |-> "malformed"] >> } \cup { <<o>> : o \in Objects }

UIDs == { "u1", "u2" }

Kinds == { "Deployment", "Service", "ConfigMap", "Pod" }

AdmissionRequests == [UID : UIDs, Kind : Kinds, Object : RawObjects]

ReviewDoc(req) ==
  [syntax |-> "json", apiVersion |-> "admission.k8s.io/v1", kind |-> "AdmissionReview",
   request |-> req]

Docs ==
  { [syntax |-> "malformed"],
    [syntax |-> "mismatch", apiVersion |-> "admission.k8s.io/v1", kind |-> "AdmissionReview"] }
    \cup { ReviewDoc(r) : r \in Optional(AdmissionRequests) }

Bodies ==
  { <<>>,
    << [data |-> <<>>, err |-> FALSE] >>,
    << [data |-> <<>>, err |-> TRUE] >>,
    << [data |-> << [syntax |-> "malformed"] >>, err |-> TRUE] >>,
    << [data |-> << ReviewDoc(<<>>) >>, err |-> TRUE] >> }
    \cup { << [data |-> <<d>>, err |-> FALSE] >> : d \in Docs }

ContentTypes == { ContentTypeJSON, "application/json; charset=utf-8", "" }

Paths == { "/validate", "/mutate", "/healthz" }

Requests == [Body : Bodies, ContentType : ContentTypes, Path : Paths]

(***************************************************************************)
(* JSON Patch (RFC 6902) as the caller applies it to the annotations of    *)
(* the object: a path of two pieces names the annotation map itself, a     *)
(* path of three pieces one key of it; an annotation value is a string, so *)
(* no longer path names anything.  annotations is nil (<<>>) or <<map>>.   *)
(***************************************************************************)
applyOperation(annotations, op) ==
  LET fail == [ok |-> FALSE, annotations |-> annotations] IN
  IF SubSeq(op.Path, 1, 2) # AnnotationsPath THEN fail
  ELSE IF Len(op.Path) = 2
  THEN IF op.Value.type # "object" THEN fail
       ELSE IF op.Op = "add" \/ (op.Op = "replace" /\ Len(annotations) = 1)
       THEN [ok |-> TRUE, annotations |-> << op.Value.fields >>]
       ELSE fail
  ELSE IF Len(op.Path) = 3
  THEN IF op.Value.type # "string" \/ Len(annotations) = 0 THEN fail
       ELSE IF op.Op = "add" \/ (op.Op = "replace" /\ op.Path[3] \in DOMAIN annotations[1])
       THEN [ok |-> TRUE,
             annotations |-> << (op.Path[3] :> op.Value.str) @@ annotations[1] >>]
       ELSE fail
  ELSE fail

RECURSIVE applyPatch(_, _)
applyPatch(annotations, patch) ==
  IF Len(patch) = 0 THEN [ok |-> TRUE, annotations |-> annotations]
  ELSE LET first == applyOperation(annotations, patch[1]) IN
       IF first.ok THEN applyPatch(first.annotations, Tail(patch))
       ELSE [ok |-> FALSE, annotations |-> annotations]

(***************************************************************************)
(* The state machine: one request at a time is received, handled, and      *)
(* either submitted again unchanged or closed.                             *)
(***************************************************************************)
Init ==
  /\ WhiteListRegistries \in Whitelists
  /\ request = <<>>
  /\ response = <<>>
  /\ pc = "idle"
  /\ calls = 0

Receive ==
  /\ pc = "idle"
  /\ \E r \in Requests : request' = <<r>>
  /\ response' = <<>>
  /\ pc' = "received"
  /\ calls' = 0
  /\ UNCHANGED WhiteListRegistries

Serve ==
  /\ pc = "received"
  /\ LET reply == Handler(request[1], WhiteListRegistries)
     IN  /\ response' = <<reply>>
         /\ pc' = IF reply.written THEN "replied" ELSE "aborted"
  /\ calls' = calls + 1
  /\ UNCHANGED <<WhiteListRegistries, request>>

Resubmit ==
  /\ pc \in {"replied", "aborted"}
  /\ calls < MaxCalls
  /\ response' = <<>>
  /\ pc' = "received"
  /\ UNCHANGED <<WhiteListRegistries, request, calls>>

(* The caller applies the returned patch to the object it sent and sends   *)
(* the patched object again; a patch that does not apply fails the write.  *)
ApplyPatch ==
  /\ pc = "replied"
  /\ calls < MaxCalls
  /\ Len(response[1].review) = 1
  /\ Len(response[1].review[1].Response) = 1
  /\ Len(response[1].review[1].Response[1].Patch) > 0
  /\ LET object == request[1].Body[1].data[1].request[1].Object[1]
         applied == applyPatch(object.annotations, response[1].review[1].Response[1].Patch)
     IN  IF applied.ok
         THEN /\ request' = << [request[1] EXCEPT
                   !.Body[1].data[1].request[1].Object[1].annotations = applied.annotations] >>
              /\ response' = <<>>
              /\ pc' = "received"
         ELSE /\ pc' = "patchFailed"
              /\ UNCHANGED <<request, response>>
  /\ UNCHANGED <<WhiteListRegistries, calls>>

Close ==
  /\ pc \in {"replied", "aborted", "patchFailed"}
  /\ request' = <<>>
  /\ response' = <<>>
  /\ pc' = "idle"
  /\ calls' = 0
  /\ UNCHANGED WhiteListRegistries

Next == Receive \/ Serve \/ Resubmit \/ ApplyPatch \/ Close

Spec == Init /\ [][Next]_vars

TypeOK ==
  /\ WhiteListRegistries \in Whitelists
  /\ pc \in {"idle", "received", "replied", "aborted", "patchFailed"}
  /\ calls \in 0..MaxCalls
  /\ (pc = "idle") <=> (request = <<>>)
  /\ (pc \in {"replied", "aborted", "patchFailed"}) <=> (response # <<>>)

(***************************************************************************)
(* Concurrent serving: net/http runs Handler in one goroutine per          *)
(* connection, all on the same WebhookServer.  Each handler h has its own  *)
(* request, reply and position (the variables are functions of h here);    *)
(* WhiteListRegistries is the one shared value.  The container loop of     *)
(* validate is taken one iteration at a time, so that handlers interleave  *)
(* between their reads of the whitelist.                                   *)
(***************************************************************************)
Handlers == { "h1", "h2" }

At(where, i) == [at |-> where, i |-> i]

ConcContainerLists == SeqsUpTo({ <<"b", "/", "y">>, <<"c", "/", "z">> }, MaxContainers)

ConcReview(kind, object) ==
  << [data |-> << ReviewDoc(<< [UID |-> "u1", Kind |-> kind, Object |-> <<object>>] >>) >>,
      err |-> FALSE] >>

ConcRequests ==
  { [Body |-> ConcReview("Pod", ObjectDoc(<<>>, c)), ContentType |-> ContentTypeJSON,
     Path |-> "/validate"] : c \in ConcContainerLists }
    \cup
  { [Body |-> ConcReview(k, ObjectDoc(a, <<>>)), ContentType |-> ContentTypeJSON,
     Path |-> "/mutate"] :
      k \in { "Deployment", "ConfigMap" },
      a \in { <<>>, << AnnotationStatusKey :> <<"p", "e", "n", "d", "i", "n", "g">> >> } }
    \cup
  { [Body |-> << [data |-> << ReviewDoc(<<>>) >>, err |-> FALSE] >>,
     ContentType |-> ContentTypeJSON, Path |-> "/validate"],
    [Body |-> << [data |-> << [syntax |-> "malformed"] >>, err |-> FALSE] >>,
     ContentType |-> ContentTypeJSON, Path |-> "/mutate"],
    [Body |-> <<>>, ContentType |-> "", Path |-> "/validate"] }

(* The request reaches the container loop of validate.                     *)
entersLoop(req) ==
  /\ Len(ReadBody(req)) > 0
  /\ ContentTypeOk(req.ContentType)
  /\ ~Decode(ReadBody(req)).err
  /\ req.Path = "/validate"
  /\ Len(Decode(ReadBody(req)).review.Request) = 1
  /\ ~UnmarshalFails(Decode(ReadBody(req)).review.Request[1].Object)

(* One iteration of the container loop at index i: the response when the   *)
(* loop ends here, and the whitelist as the iteration leaves it (the loop  *)
(* only ranges over s.WhiteListRegistries).                                *)
containerStepMoveToFront(containers, registries, i) ==
  IF i > Len(containers)
  THEN [registries |-> registries, done |-> TRUE,
        resp |-> << AdmissionResponse(TRUE, Status(StatusOK, <<>>), <<>>, <<>>) >>]
  ELSE IF ~whitelisted(containers[i], registries)
  THEN [registries |-> registries, done |-> TRUE,
        resp |-> << AdmissionResponse(FALSE,
                      Status(StatusForbidden, untrustedMessage(containers[i], registries)),
                      <<>>, <<>>) >>]
  ELSE LET hit == CHOOSE j \in 1..Len(registries) :
                    /\ HasPrefix(containers[i], registries[j])
                    /\ \A k \in 1..(j - 1) : ~HasPrefix(containers[i], registries[k])
       IN  [registries |-> << registries[hit] >>
                             \o SubSeq(registries, 1, hit - 1)
                             \o SubSeq(registries, hit + 1, Len(registries)),
            done |-> FALSE, resp |-> <<>>]

containerStep(containers, registries, i) ==
  IF i > Len(containers)
  THEN [registries |-> registries, done |-> TRUE,
        resp |-> << AdmissionResponse(TRUE, Status(StatusOK, <<>>), <<>>, <<>>) >>]
  ELSE IF ~whitelisted(containers[i], registries)
  THEN [registries |-> registries, done |-> TRUE,
        resp |-> << AdmissionResponse(FALSE,
                      Status(StatusForbidden, untrustedMessage(containers[i], registries)),
                      <<>>, <<>>) >>]
  ELSE [registries |-> registries, done |-> FALSE, resp |-> <<>>]

ConcInit ==
  /\ WhiteListRegistries \in Whitelists
  /\ request = [h \in Handlers |-> <<>>]
  /\ response = [h \in Handlers |-> <<>>]
  /\ pc = [h \in Handlers |-> At("idle", 0)]
  /\ calls = [h \in Handlers |-> 0]

ConcReceive(h) ==
  /\ pc[h].at = "idle"
  /\ \E r \in ConcRequests : request' = [request EXCEPT ![h] = <<r>>]
  /\ pc' = [pc EXCEPT ![h] = At("received", 0)]
  /\ UNCHANGED <<WhiteListRegistries, response, calls>>

(* Handler up to the container loop, or to its end when the request does   *)
(* not reach the loop.                                                     *)
ConcBegin(h) ==
  /\ pc[h].at = "received"
  /\ calls' = [calls EXCEPT ![h] = @ + 1]
  /\ IF entersLoop(request[h][1])
     THEN /\ pc' = [pc EXCEPT ![h] = At("loop", 1)]
          /\ UNCHANGED response
     ELSE LET reply == Handler(request[h][1], WhiteListRegistries)
          IN  /\ response' = [response EXCEPT ![h] = <<reply>>]
              /\ pc' = [pc EXCEPT ![h] =
                          At(IF reply.written THEN "replied" ELSE "aborted", 0)]
  /\ UNCHANGED <<WhiteListRegistries, request>>

ConcCheckContainer(h) ==
  /\ pc[h].at = "loop"
  /\ LET review == Decode(ReadBody(request[h][1])).review
         step == containerStep(PodContainers(review.Request[1].Object),
                               WhiteListRegistries, pc[h].i)
     IN  /\ WhiteListRegistries' = step.registries
         /\ IF step.done
            THEN /\ response' = [response EXCEPT ![h] =
                       << httpWrite(responseAdmissionReview(review, step.resp),
                                    {"decode", "validate", "whitelist"}) >>]
                 /\ pc' = [pc EXCEPT ![h] = At("replied", 0)]
            ELSE /\ pc' = [pc EXCEPT ![h] = At("loop", pc[h].i + 1)]
                 /\ UNCHANGED response
  /\ UNCHANGED <<request, calls>>

ConcResubmit(h) ==
  /\ pc[h].at \in {"replied", "aborted"}
  /\ calls[h] < MaxCalls
  /\ response' = [response EXCEPT ![h] = <<>>]
  /\ pc' = [pc EXCEPT ![h] = At("received", 0)]
  /\ UNCHANGED <<WhiteListRegistries, request, calls>>

ConcClose(h) ==
  /\ pc[h].at \in {"replied", "aborted"}
  /\ request' = [request EXCEPT ![h] = <<>>]
  /\ response' = [response EXCEPT ![h] = <<>>]
  /\ pc' = [pc EXCEPT ![h] = At("idle", 0)]
  /\ calls' = [calls EXCEPT ![h] = 0]
  /\ UNCHANGED WhiteListRegistries

ConcNext ==
  \E h \in Handlers :
    \/ ConcReceive(h)
    \/ ConcBegin(h)
    \/ ConcCheckContainer(h)
    \/ ConcResubmit(h)
    \/ ConcClose(h)

SpecConc == ConcInit /\ [][ConcNext]_vars

(***************************************************************************)
(* Vocabulary of the properties, read off the request and the reply.       *)
(***************************************************************************)
Req == request[1]

Reply == response[1]

Handled == pc \in {"replied", "aborted"}

(* The body is absent, unreadable or of length zero.                       *)
BodyEmpty ==
  \/ Len(Req.Body) = 0
  \/ Req.Body[1].err
  \/ Len(Req.Body[1].data) = 0

Doc == Req.Body[1].data[1]

(* Non-empty body, content type application/json.                          *)
Accepted == ~BodyEmpty /\ Req.ContentType = "application/json"

DecodeSucceeds == Accepted /\ Doc.syntax = "json"

DecodeFails == Accepted /\ Doc.syntax # "json"

HasRequest == DecodeSucceeds /\ Len(Doc.request) = 1

AdmReq == Doc.request[1]

ObjectDecodes ==
  HasRequest /\ Len(AdmReq.Object) = 1 /\ AdmReq.Object[1].syntax = "json"

Object == AdmReq.Object[1]

(* The reply is an AdmissionReview envelope carrying a decision.           *)
HasDecision ==
  /\ pc = "replied"
  /\ Len(Reply.review) = 1
  /\ Len(Reply.review[1].Response) = 1

Decision == Reply.review[1].Response[1]

ResultCode == IF Len(Decision.Result) = 0 THEN 0 ELSE Decision.Result[1].Code

ResultMessage == IF Len(Decision.Result) = 0 THEN <<>> ELSE Decision.Result[1].Message

NoPatch == Decision.Patch = <<>> /\ Decision.PatchType = <<>>

OnValidateWorkload == Handled /\ ObjectDecodes /\ Req.Path = "/validate"

OnMutateSupported ==
  /\ Handled
  /\ ObjectDecodes
  /\ Req.Path = "/mutate"
  /\ AdmReq.Kind \in {"Deployment", "Service"}

HasAnnotationMap == Len(Object.annotations) = 1

AnnotationOf(key) ==
  IF HasAnnotationMap /\ key \in DOMAIN Object.annotations[1]
  THEN Object.annotations[1][key]
  ELSE <<>>

StatusIsMutated == ToLower(AnnotationOf("io.ydzs.admission-registry/status")) = Mutated

DirectiveOptsOut ==
  ToLower(AnnotationOf("io.ydzs.admission-registry/mutate"))
    \in { <<"n">>, <<"n", "o">>, <<"f", "a", "l", "s", "e">>, <<"o", "f", "f">> }

AllImagesWhitelisted ==
  \A i \in 1..Len(Object.containers) :
    \E j \in 1..Len(WhiteListRegistries) :
      HasPrefix(Object.containers[i], WhiteListRegistries[j])

(* "/metadata/annotations/io.ydzs.admission-registry/status", in pieces.    *)
StatusKeyPath == <<"metadata", "annotations", "io.ydzs.admission-registry", "status">>

(***************************************************************************)
(* C1: every request whose AdmissionReview body decodes gets, on any path  *)
(* and for any target object, an AdmissionReview reply whose response.uid  *)
(* equals the request's uid.                                               *)
(***************************************************************************)
C1_UidEchoed ==
  (Handled /\ DecodeSucceeds) =>
    /\ HasDecision
    /\ Decision.UID = (IF Len(Doc.request) = 1 THEN AdmReq.UID ELSE "")

(***************************************************************************)
(* C2: on /validate with an object that decodes as a workload, the         *)
(* decision is allowed, code 200, empty message exactly when every         *)
(* container image starts with some whitelist prefix; otherwise it is not  *)
(* allowed with code 403.                                                  *)
(***************************************************************************)
C2_ValidateDecision ==
  OnValidateWorkload =>
    /\ HasDecision
    /\ AllImagesWhitelisted =>
         (Decision.Allowed /\ ResultCode = 200 /\ ResultMessage = <<>>)
    /\ ~AllImagesWhitelisted => (~Decision.Allowed /\ ResultCode = 403)

C2_Witness ==
  /\ OnValidateWorkload
  /\ Len(Object.containers) = 2
  /\ HasPrefix(Object.containers[1], WhiteListRegistries[1])
  /\ ~AllImagesWhitelisted
  /\ HasDecision
  /\ ResultCode = 403

(***************************************************************************)
(* C3: on /mutate for a supported kind, when mutation is required and the  *)
(* object has an annotation map without the status key, the patch is       *)
(* exactly one replace of /metadata/annotations/<status-key> by "mutated". *)
(***************************************************************************)
C3_ReplaceWhenMapLacksStatusKey ==
  ( /\ OnMutateSupported
    /\ HasAnnotationMap
    /\ "io.ydzs.admission-registry/status" \notin DOMAIN Object.annotations[1]
    /\ ~DirectiveOptsOut ) =>
    /\ HasDecision
    /\ Decision.Patch =
         << [Op |-> "replace", Path |-> StatusKeyPath,
             Value |-> [type |-> "string", str |-> Mutated]] >>

(***************************************************************************)
(* C4: on /mutate for a supported kind whose object has no annotation map, *)
(* the decision is allowed with patch type JSONPatch and a patch of        *)
(* exactly one add of /metadata/annotations with {<status-key>: mutated}.  *)
(***************************************************************************)
C4_AddWhenNoAnnotationMap ==
  (OnMutateSupported /\ ~HasAnnotationMap) =>
    /\ HasDecision
    /\ Decision.Allowed
    /\ Decision.PatchType = <<"JSONPatch">>
    /\ Decision.Patch =
         << [Op |-> "add", Path |-> <<"metadata", "annotations">>,
             Value |-> [type |-> "object",
                        fields |-> ("io.ydzs.admission-registry/status" :> Mutated)]] >>

C4_Witness ==
  /\ OnMutateSupported
  /\ ~HasAnnotationMap
  /\ HasDecision
  /\ Len(Decision.Patch) = 1
  /\ Decision.Patch[1].Op = "add"

(***************************************************************************)
(* C5: on /mutate for a supported kind, an object whose status annotation  *)
(* is "mutated" in any letter case is allowed with no patch and no patch   *)
(* type, whatever the directive, on the first and on every repeated call.  *)
(***************************************************************************)
C5_MutatedNeedsNoPatch ==
  (OnMutateSupported /\ StatusIsMutated) =>
    (HasDecision /\ Decision.Allowed /\ NoPatch /\ ResultCode = 0)

C5_Witness ==
  /\ OnMutateSupported
  /\ AnnotationOf("io.ydzs.admission-registry/status") = <<"M", "U", "T", "A", "T", "E", "D">>
  /\ AnnotationOf("io.ydzs.admission-registry/mutate") = <<"y", "e", "s">>
  /\ calls = 2
  /\ HasDecision
  /\ NoPatch

(***************************************************************************)
(* C6: on /mutate for a supported kind whose status is not "mutated",      *)
(* the decision is allowed without patch exactly when the lower-cased      *)
(* directive is n, no, false or off; for every other directive, absent or  *)
(* empty included, and without annotation map, the response has a patch.   *)
(***************************************************************************)
C6_OptOutDirective ==
  (OnMutateSupported /\ ~StatusIsMutated) =>
    /\ HasDecision
    /\ Decision.Allowed
    /\ DirectiveOptsOut => NoPatch
    /\ ~DirectiveOptsOut => (Len(Decision.Patch) >= 1 /\ Decision.PatchType # <<>>)

C6_Witness ==
  /\ OnMutateSupported
  /\ ~StatusIsMutated
  /\ AnnotationOf("io.ydzs.admission-registry/mutate") = <<"N", "O">>
  /\ HasDecision
  /\ NoPatch

(***************************************************************************)
(* C7: a request with an empty, absent or unreadable body gets HTTP 400    *)
(* with the text "empty data body", whatever its content type and path,    *)
(* and nothing is decoded and no policy runs.                              *)
(***************************************************************************)
C7_EmptyBodyRejected ==
  (Handled /\ BodyEmpty) =>
    /\ pc = "replied"
    /\ Reply.status = 400
    /\ Reply.text = "empty data body\n"
    /\ Reply.review = <<>>
    /\ Reply.ran = {}

C7_Witness ==
  /\ Handled
  /\ Len(Req.Body) = 1
  /\ Req.Body[1].err
  /\ Len(Req.Body[1].data) = 1
  /\ Req.ContentType = "application/json"
  /\ Reply.status = 400

(***************************************************************************)
(* C8: a request whose Content-Type is not exactly application/json gets   *)
(* HTTP 400 whatever its body and path, before the body is decoded and     *)
(* before any routing.                                                     *)
(***************************************************************************)
C8_ContentTypeRejected ==
  (Handled /\ Req.ContentType # "application/json") =>
    /\ pc = "replied"
    /\ Reply.status = 400
    /\ Reply.review = <<>>
    /\ Reply.ran = {}

C8_Witness ==
  /\ Handled
  /\ Req.ContentType = "application/json; charset=utf-8"
  /\ ~BodyEmpty
  /\ Doc.syntax = "json"
  /\ Req.Path = "/validate"
  /\ Reply.status = 400
  /\ Reply.text = "Content-Type invalid, expect application/json\n"

C10_UnsupportedKind ==
  ( /\ Handled
    /\ HasRequest
    /\ Req.Path = "/mutate"
    /\ AdmReq.Kind \notin {"Deployment", "Service"} ) =>
    /\ HasDecision
    /\ Reply.status = 200
    /\ ~Decision.Allowed
    /\ ResultCode = 400
    /\ \E i \in 1..Len(ResultMessage) : ResultMessage[i] = AdmReq.Kind
    /\ NoPatch
    /\ Reply.ran = {"decode", "mutate"}

C10_Witness ==
  /\ Handled
  /\ ObjectDecodes
  /\ Req.Path = "/mutate"
  /\ AdmReq.Kind = "ConfigMap"
  /\ ~HasAnnotationMap
  /\ HasDecision
  /\ ResultCode = 400

PolicyError ==
  /\ HasRequest
  /\ \/ Req.Path = "/validate" /\ ~ObjectDecodes
     \/ Req.Path = "/mutate" /\ ~ObjectDecodes
     \/ Req.Path = "/mutate" /\ AdmReq.Kind \notin {"Deployment", "Service"}

C12_PolicyErrorInEnvelope ==
  (Handled /\ PolicyError) =>
    /\ HasDecision
    /\ Reply.status = 200
    /\ Reply.text = ""
    /\ ~Decision.Allowed
    /\ ResultCode = 400
    /\ NoPatch

C12_Witness ==
  /\ Handled
  /\ HasRequest
  /\ Req.Path = "/validate"
  /\ Len(AdmReq.Object) = 1
  /\ AdmReq.Object[1].syntax = "malformed"
  /\ HasDecision
  /\ ResultCode = 400

(***************************************************************************)
(* C13: when validate rejects, the message names the image of the first    *)
(* container, in declared order, that has no whitelist prefix, followed by *)
(* the whole whitelist; later containers change nothing.                   *)
(***************************************************************************)
HasNoPrefix(image) ==
  \A j \in 1..Len(WhiteListRegistries) : ~HasPrefix(image, WhiteListRegistries[j])

FirstOffender ==
  CHOOSE i \in 1..Len(Object.containers) :
    /\ HasNoPrefix(Object.containers[i])
    /\ \A k \in 1..(i - 1) : ~HasNoPrefix(Object.containers[k])

C13_FirstOffenderNamed ==
  (OnValidateWorkload /\ ~AllImagesWhitelisted) =>
    /\ HasDecision
    /\ ~Decision.Allowed
    /\ ResultMessage =
         Object.containers[FirstOffender]
           \o <<" image comes from an untrusted registry! Only images from ">>
           \o FormatList(WhiteListRegistries)
           \o <<" are allowed.">>

C13_Witness ==
  /\ OnValidateWorkload
  /\ Len(Object.containers) = 2
  /\ HasNoPrefix(Object.containers[1])
  /\ HasNoPrefix(Object.containers[2])
  /\ Object.containers[1] # Object.containers[2]
  /\ Len(WhiteListRegistries) = 2
  /\ HasDecision
  /\ HasPrefix(ResultMessage, Object.containers[1])

(***************************************************************************)
(* C15: mutation converges in one step: when /mutate returns a patch for   *)
(* a supported-kind object, the patch applies to the object and the        *)
(* patched object, sent to /mutate again, is allowed with no patch.        *)
(***************************************************************************)
PatchReturned ==
  /\ pc = "replied"
  /\ OnMutateSupported
  /\ HasDecision
  /\ Len(Decision.Patch) > 0

Patched == applyPatch(Object.annotations, Decision.Patch)

PatchedRequest ==
  [Req EXCEPT !.Body[1].data[1].request[1].Object[1].annotations = Patched.annotations]

SecondReply == Handler(PatchedRequest, WhiteListRegistries)

C15_ConvergesInOneStep ==
  /\ pc # "patchFailed"
  /\ PatchReturned =>
       /\ Patched.ok
       /\ SecondReply.written
       /\ Len(SecondReply.review) = 1
       /\ Len(SecondReply.review[1].Response) = 1
       /\ SecondReply.review[1].Response[1].Allowed
       /\ SecondReply.review[1].Response[1].Patch = <<>>
       /\ SecondReply.review[1].Response[1].PatchType = <<>>

(***************************************************************************)
(* C16: applying the returned patch changes only the status annotation:    *)
(* every other annotation of the object is still there with its value.     *)
(***************************************************************************)
C16_OtherAnnotationsKept ==
  (PatchReturned /\ Patched.ok /\ HasAnnotationMap) =>
    /\ Len(Patched.annotations) = 1
    /\ \A key \in DOMAIN Object.annotations[1] \ {"io.ydzs.admission-registry/status"} :
         /\ key \in DOMAIN Patched.annotations[1]
         /\ Patched.annotations[1][key] = Object.annotations[1][key]

(***************************************************************************)
(* C17: a request with a non-empty application/json body on /validate or   *)
(* /mutate always ends with one response written by the handler, also when *)
(* the decoded AdmissionReview has no request section.                     *)
(***************************************************************************)
C17_AlwaysReplies ==
  (pc \in {"replied", "aborted"} /\ Accepted /\ Req.Path \in {"/validate", "/mutate"}) =>
    (pc = "replied" /\ Reply.written)

(***************************************************************************)
(* C14: handler invocations are independent: none changes the shared       *)
(* whitelist, so under every interleaving a finished handler's reply is    *)
(* the reply its request gets when handled alone, and two handlers that    *)
(* finished the same request hold the same reply.                          *)
(***************************************************************************)
Finished(h) == pc[h].at \in {"replied", "aborted"}

C14_RepliesAsAlone ==
  /\ \A h \in Handlers :
       Finished(h) => response[h] = << Handler(request[h][1], WhiteListRegistries) >>
  /\ \A g, h \in Handlers :
       (Finished(g) /\ Finished(h) /\ request[g] = request[h]) => response[g] = response[h]

C14_Independent ==
  [] C14_RepliesAsAlone /\ [][WhiteListRegistries' = WhiteListRegistries]_vars

C14_Witness ==
  /\ WhiteListRegistries = <<RegA, RegB>>
  /\ pc["h1"].at = "replied"
  /\ calls["h1"] = 2
  /\ request["h1"][1].Path = "/validate"
  /\ Len(response["h1"][1].review) = 1
  /\ response["h1"][1].review[1].Response[1].Allowed = FALSE
  /\ pc["h2"] = At("loop", 2)
  /\ request["h1"] = request["h2"]

====
